---- MODULE Spec2Model ----
(***************************************************************************)
(* Model of build.py, the fetch/build wrapper of webrtc-android.            *)
(*                                                                         *)
(* A Python str is modelled as a sequence of chunks; the chunk "\n" is the  *)
(* newline character and no other chunk contains one.  An argument list is *)
(* a sequence of such strs.  A byte of the log file is a record saying who  *)
(* wrote it (the wrapper, the n-th subprocess, or a previous run) and the  *)
(* chunk it carries.                                                       *)
(***************************************************************************)
EXTENDS Integers, Sequences, FiniteSets, TLC

VARIABLES
    opts,       \* the argparse namespace returned by parse_args
    callerEnv,  \* the environment the process was started with
    environ,    \* os.environ
    disk,       \* contents of the log file on the filesystem
    buf,        \* write buffer of the open log file object
    stdout,     \* what print() wrote to the wrapper's standard output
    pc,         \* "main" | "action" | "subprocess" | "exited"
    step,       \* position in the body of run_fetch / run_build
    invoked,    \* one record per subprocess.run call, in call order
    results,    \* outcome of each finished subprocess.run call (TRUE = exit 0)
    exitcode    \* <<>> while running, <<status>> once the process has exited

vars == <<opts, callerEnv, environ, disk, buf, stdout, pc, step, invoked, results, exitcode>>

\* Total number of output chunks the subprocesses of one run write.
MaxOutput == 2

\* The caller's environment sets at most this many of the variables that
\* fetch defaults, or all but at most this many.
MaxCallerSet == 1

None == "None"
NL == "\n"

Range(s) == {s[i] : i \in DOMAIN s}

\* A list of newline-free string literals as a list of strs.
Words(w) == [i \in DOMAIN w |-> <<w[i]>>]

-----------------------------------------------------------------------------
(* Program constants *)

ROOT == "src"

GCLIENT_SPEC ==
    << "solutions = [", NL,
       "  {", NL,
       "    \"name\": \"src\",", NL,
       "    \"url\": \"https://webrtc.googlesource.com/src.git\",", NL,
       "    \"deps_file\": \"DEPS\",", NL,
       "    \"managed\": False,", NL,
       "    \"custom_deps\": {},", NL,
       "  },", NL,
       "]", NL,
       "target_os = [\"android\", \"unix\"]", NL >>

\* The os.environ.setdefault calls of run_fetch, in source order.
EnvDefaults ==
    << <<"DEBIAN_FRONTEND", "noninteractive">>,
       <<"DEBIAN_PRIORITY", "critical">>,
       <<"DEBCONF_NONINTERACTIVE_SEEN", "true">>,
       <<"APT_LISTCHANGES_FRONTEND", "none">>,
       <<"TZ", "Etc/UTC">>,
       <<"LANG", "C.UTF-8">>,
       <<"LC_ALL", "C.UTF-8">>,
       <<"LANGUAGE", "C.UTF-8">> >>

DefaultVars == {EnvDefaults[i][1] : i \in DOMAIN EnvDefaults}

-----------------------------------------------------------------------------
(* Inputs *)

Dirs == {"/work"}
LogfilePaths == {None, "my.log"}
Revisions == {None, "branch-heads/6045"}
TempNames == {"./build_k3x9.log"}

FetchOptions ==
    [func : {"run_fetch"}, dir : Dirs, logfile : LogfilePaths,
     revision : Revisions, history : BOOLEAN]

BuildOptions ==
    [func : {"run_build"}, dir : Dirs, logfile : LogfilePaths,
     official : BOOLEAN, unstripped : BOOLEAN]

\* Value a caller has given to a variable it sets (LANGUAGE is set but empty).
CallerValue(v) == IF v = "LANGUAGE" THEN "" ELSE "caller"

\* Caller environments: PATH plus a subset of the variables fetch defaults.
CallerEnvs ==
    { [v \in S \cup {"PATH"} |-> IF v = "PATH" THEN "/usr/bin" ELSE CallerValue(v)] :
        S \in { T \in SUBSET DefaultVars :
                  \/ Cardinality(T) <= MaxCallerSet
                  \/ Cardinality(DefaultVars \ T) <= MaxCallerSet } }

\* What a file named by --logfile may hold before the run.
OldLog == << [by |-> "previous", n |-> 0, c |-> "old log line"],
             [by |-> "previous", n |-> 0, c |-> NL] >>

-----------------------------------------------------------------------------
(* Logger *)

Wrapper(text) == [i \in DOMAIN text |-> [by |-> "wrapper", n |-> 0, c |-> text[i]]]

\* print(message)
print(message, out) == out \o message \o <<NL>>

\* logfile.write((message + "\n").encode()) on a buffered file object
log(message, b) == b \o Wrapper(message \o <<NL>>)

\* flush that leaves the bytes in the buffer
flush_deferred(d, b) == [disk |-> d, buf |-> b]

\* flush that writes the buffer at offset zero of a file it first empties
flush_rewound(d, b) == [disk |-> b, buf |-> <<>>]

\* logfile.flush(): the buffered bytes go to the file at its offset (the end)
flush(d, b) == [disk |-> d \o b, buf |-> <<>>]

\* open(path, mode='w+b') / NamedTemporaryFile(delete=False, ...): the file
\* is created, or truncated to length zero when it exists.
open_wb(d) == <<>>

AnnounceMessage(name) == <<"Writing to log file '", name, "'">>

-----------------------------------------------------------------------------
(* CommandRunner *)

RECURSIVE Join(_)
\* ' '.join(args)
Join(args) ==
    IF args = <<>> THEN <<>>
    ELSE IF Len(args) = 1 THEN args[1]
    ELSE args[1] \o <<" ">> \o Join(Tail(args))

Getcwd == "/cwd"

RunningMessage(args, cwd) ==
    <<"Running '">> \o Join(args) \o <<"' in '">>
        \o <<IF cwd # None THEN cwd ELSE Getcwd>> \o <<"'">>

FailedMessage == <<"Command failed.">>

\* the environment captured at start-up instead of the current one
ChildEnv_startup(e) == callerEnv

\* env=os.environ.copy()
ChildEnv(e) == e

\* handler that logs the marker but does not re-raise
except_swallow(b) == [buf |-> log(FailedMessage, b), raise |-> FALSE]

\* except: log('Command failed.', logfile); raise
except_handler(b) == [buf |-> log(FailedMessage, b), raise |-> TRUE]

-----------------------------------------------------------------------------
(* Actions of the wrapper *)

\* os.path.join(a, b) for a non-empty a without a trailing separator
PathJoin(a, b) == a \o "/" \o b

\* sync options with the history test inverted
sync_opts_inverted(o) ==
    (IF o.history THEN Words(<<"--no-history">>) ELSE <<>>)
    \o (IF o.revision # None
        THEN Words(<<"--revision", ROOT \o "@" \o o.revision>>)
        ELSE <<>>)

sync_opts(o) ==
    (IF ~o.history THEN Words(<<"--no-history">>) ELSE <<>>)
    \o (IF o.revision # None
        THEN Words(<<"--revision", ROOT \o "@" \o o.revision>>)
        ELSE <<>>)

\* build options with the two flags exchanged
build_opts_swapped(o) ==
    (IF o.unstripped THEN Words(<<"--extra-gn-args=is_official_build=true">>) ELSE <<>>)
    \o (IF o.official THEN Words(<<"--use-unstripped-libs">>) ELSE <<>>)

build_opts(o) ==
    (IF o.official THEN Words(<<"--extra-gn-args=is_official_build=true">>) ELSE <<>>)
    \o (IF o.unstripped THEN Words(<<"--use-unstripped-libs">>) ELSE <<>>)

\* Position of the setdefault block among the statements of run_fetch.
SetEnvStep == 5

\* The run_command call at position s of run_fetch.
run_fetch(o, s) ==
    CASE s = 1 -> [args |-> Words(<<"gclient", "root">>), cwd |-> o.dir]
      [] s = 2 -> [args |-> Words(<<"gclient", "config", "--spec">>) \o <<GCLIENT_SPEC>>,
                   cwd |-> o.dir]
      [] s = 3 -> [args |-> Words(<<"gclient", "sync", "--delete_unversioned_trees",
                                    "--nohooks">>) \o sync_opts(o),
                   cwd |-> o.dir]
      [] s = 4 -> [args |-> Words(<<"git", "config", "diff.ignoreSubmodules", "dirty">>),
                   cwd |-> PathJoin(o.dir, ROOT)]
      [] s = 6 -> [args |-> Words(<<"./build/install-build-deps.sh">>),
                   cwd |-> PathJoin(o.dir, ROOT)]
      [] s = 7 -> [args |-> Words(<<"gclient", "runhooks">>), cwd |-> o.dir]

\* The run_command call of run_build.
run_build(o, s) ==
    [args |-> Words(<<"./tools_webrtc/android/build_aar.py">>) \o build_opts(o),
     cwd |-> PathJoin(o.dir, ROOT)]

\* Number of statements in the selected action's body.
LastStep(o) == IF o.func = "run_fetch" THEN 7 ELSE 1

IsCommand(o, s) ==
    /\ s \in 1..LastStep(o)
    /\ ~(o.func = "run_fetch" /\ s = SetEnvStep)

Command(o, s) == IF o.func = "run_fetch" THEN run_fetch(o, s) ELSE run_build(o, s)

\* control that skips the statement after s
NextStep_skip(s) == s + 2

\* Control moves to the statement after s.
NextStep(s) == s + 1

\* exit status when main catches the exception
ExitStatus_swallowed(raised) == 0

\* Exit status of the interpreter: sys.exit(None) or an uncaught exception.
ExitStatus(raised) == IF raised THEN 1 ELSE 0

RECURSIVE setdefaults_overwrite(_, _)
\* plain assignment os.environ[k] = v instead of setdefault
setdefaults_overwrite(e, n) ==
    IF n = 0 THEN e
    ELSE LET prev == setdefaults_overwrite(e, n - 1)
             k == EnvDefaults[n][1]
             v == EnvDefaults[n][2]
         IN [x \in DOMAIN prev \cup {k} |-> IF x = k THEN v ELSE prev[x]]

RECURSIVE setdefaults(_, _)
\* os.environ.setdefault(k, v) for the first n entries of EnvDefaults
setdefaults(e, n) ==
    IF n = 0 THEN e
    ELSE LET prev == setdefaults(e, n - 1)
             k == EnvDefaults[n][1]
             v == EnvDefaults[n][2]
         IN IF k \in DOMAIN prev THEN prev ELSE prev @@ (k :> v)

NumOutput(d) == Len(SelectSeq(d, LAMBDA x : x.by = "subprocess" /\ x.c # NL))

Init ==
    /\ opts \in FetchOptions \cup BuildOptions
    /\ callerEnv \in CallerEnvs
    /\ environ = callerEnv
    /\ disk \in (IF opts.logfile = None THEN {<<>>} ELSE {<<>>, OldLog})
    /\ buf = <<>>
    /\ stdout = <<>>
    /\ pc = "main"
    /\ step = 1
    /\ invoked = <<>>
    /\ results = <<>>
    /\ exitcode = <<>>

\* main: logfile = create_logfile(args.logfile)
CreateLogfile ==
    /\ pc = "main"
    /\ \E name \in (IF opts.logfile = None THEN TempNames ELSE {opts.logfile}) :
          /\ disk' = open_wb(disk)
          /\ buf' = log(AnnounceMessage(name), <<>>)
          /\ stdout' = print(AnnounceMessage(name), stdout)
    /\ pc' = "action"
    /\ UNCHANGED <<opts, callerEnv, environ, step, invoked, results, exitcode>>

\* run_command up to the point where subprocess.run has started the child
RunCommand ==
    /\ pc = "action"
    /\ IsCommand(opts, step)
    /\ LET cmd == Command(opts, step)
           msg == RunningMessage(cmd.args, cmd.cwd)
           f == flush(disk, log(msg, buf))
       IN /\ disk' = f.disk
          /\ buf' = f.buf
          /\ stdout' = print(msg, stdout)
          /\ invoked' = Append(invoked, [args |-> cmd.args, cwd |-> cmd.cwd,
                                         env |-> ChildEnv(environ),
                                         unflushed |-> f.buf])
    /\ pc' = "subprocess"
    /\ UNCHANGED <<opts, callerEnv, environ, step, results, exitcode>>

\* The child writes to its stdout/stderr, which is the log file's descriptor.
SubprocessWrite ==
    /\ pc = "subprocess"
    /\ NumOutput(disk) < MaxOutput
    /\ disk' = disk \o << [by |-> "subprocess", n |-> Len(invoked), c |-> "output"],
                          [by |-> "subprocess", n |-> Len(invoked), c |-> NL] >>
    /\ UNCHANGED <<opts, callerEnv, environ, buf, stdout, pc, step, invoked, results, exitcode>>

\* The interpreter exits: the log file object is flushed and closed.
Exit(raised, b) ==
    /\ disk' = flush(disk, b).disk
    /\ buf' = flush(disk, b).buf
    /\ pc' = "exited"
    /\ exitcode' = <<ExitStatus(raised)>>

\* The child exited with status zero: run_command returns and the action
\* continues; after the last statement main returns and the process exits.
SubprocessSucceeds ==
    /\ pc = "subprocess"
    /\ results' = Append(results, TRUE)
    /\ step' = NextStep(step)
    /\ IF step' > LastStep(opts)
       THEN Exit(FALSE, buf)
       ELSE /\ pc' = "action"
            /\ UNCHANGED <<disk, buf, exitcode>>
    /\ UNCHANGED <<opts, callerEnv, environ, stdout, invoked>>

\* The child exited non-zero or could not be started: subprocess.run raises,
\* the handler logs the marker and re-raises, nothing catches the exception.
SubprocessFails ==
    /\ pc = "subprocess"
    /\ results' = Append(results, FALSE)
    /\ LET h == except_handler(buf)
       IN /\ stdout' = print(FailedMessage, stdout)
          /\ IF h.raise
             THEN /\ Exit(TRUE, h.buf)
                  /\ step' = step
             ELSE /\ step' = NextStep(step)
                  /\ IF step' > LastStep(opts)
                     THEN Exit(FALSE, h.buf)
                     ELSE /\ pc' = "action"
                          /\ buf' = h.buf
                          /\ UNCHANGED <<disk, exitcode>>
    /\ UNCHANGED <<opts, callerEnv, environ, invoked>>

\* run_fetch: the os.environ.setdefault block
SetEnvDefaults ==
    /\ pc = "action"
    /\ opts.func = "run_fetch"
    /\ step = SetEnvStep
    /\ environ' = setdefaults(environ, Len(EnvDefaults))
    /\ step' = NextStep(step)
    /\ UNCHANGED <<opts, callerEnv, disk, buf, stdout, pc, invoked, results, exitcode>>

Next ==
    \/ CreateLogfile
    \/ RunCommand
    \/ SubprocessWrite
    \/ SubprocessSucceeds
    \/ SubprocessFails
    \/ SetEnvDefaults

Spec == Init /\ [][Next]_vars

-----------------------------------------------------------------------------
(* Properties *)

IsPrefix(s, t) == Len(s) <= Len(t) /\ SubSeq(t, 1, Len(s)) = s

AllSucceeded == \A i \in DOMAIN results : results[i]
SomeFailed == \E i \in DOMAIN results : ~results[i]

InvokedArgs == [i \in DOMAIN invoked |-> invoked[i].args]

\* C1: fail-fast.  A command is invoked only after every earlier command of
\* the sequence returned success; once a command has failed it is the last
\* one invoked, and the failure reaches the caller: the run ends with a
\* non-zero status.
C1_FailFast ==
    /\ Len(results) <= Len(invoked)
    /\ Len(invoked) <= Len(results) + 1
    /\ \A i \in DOMAIN invoked :
          i > 1 => (i - 1 \in DOMAIN results /\ results[i - 1])
    /\ \A i \in DOMAIN results :
          ~results[i] => /\ Len(invoked) = i
                         /\ pc = "exited"
                         /\ exitcode # <<>>
                         /\ exitcode # <<0>>

\* A fetch whose third command failed has ended.
C1_Witness ==
    /\ opts.func = "run_fetch"
    /\ pc = "exited"
    /\ Len(results) = 3
    /\ ~results[3]

\* The commands of fetch in their fixed order (sync without its options).
FetchOrder ==
    << Words(<<"gclient", "root">>),
       Words(<<"gclient", "config", "--spec">>) \o <<GCLIENT_SPEC>>,
       Words(<<"gclient", "sync", "--delete_unversioned_trees", "--nohooks">>),
       Words(<<"git", "config", "diff.ignoreSubmodules", "dirty">>),
       Words(<<"./build/install-build-deps.sh">>),
       Words(<<"gclient", "runhooks">>) >>

\* C2: fetch step order.  The commands run_fetch has invoked are the first
\* commands of the fixed order root, config, sync, git config, install
\* build deps, runhooks, each once and none skipped; the environment
\* defaults are set after git config returned and before the install script
\* is invoked; a fetch that exits with success has invoked all six.
C2_FetchOrder ==
    opts.func = "run_fetch" =>
        /\ Len(invoked) <= Len(FetchOrder)
        /\ \A i \in DOMAIN invoked :
              /\ IsPrefix(FetchOrder[i], invoked[i].args)
              /\ i # 3 => invoked[i].args = FetchOrder[i]
        /\ Len(results) < 4 => environ = callerEnv
        /\ Len(invoked) >= 5 => DefaultVars \subseteq DOMAIN environ
        /\ (pc = "exited" /\ exitcode = <<0>>) => Len(invoked) = Len(FetchOrder)

\* A fetch has run all its commands and exited with success.
C2_Witness ==
    /\ opts.func = "run_fetch"
    /\ pc = "exited"
    /\ exitcode = <<0>>
    /\ Len(invoked) = 6

\* Number of commands in the selected action's sequence.
NumCommands == IF opts.func = "run_fetch" THEN Len(FetchOrder) ELSE 1

\* C4: process exit status.  The process exits with status zero exactly
\* when every command of the selected action's sequence succeeded, and with
\* a non-zero status as soon as the first failing command has failed.
C4_ExitStatus ==
    /\ pc = "exited" =>
          /\ Len(exitcode) = 1
          /\ exitcode = <<0>> <=> (Len(results) = NumCommands /\ AllSucceeded)
          /\ SomeFailed => (exitcode[1] # 0 /\ ~results[Len(results)])
    /\ SomeFailed => pc = "exited"

\* One run exited after its last command failed, having passed the others.
C4_Witness ==
    /\ pc = "exited"
    /\ Len(results) = NumCommands
    /\ ~results[NumCommands]
    /\ exitcode = <<1>>

\* C5: sync argument list.  The sync command is gclient sync
\* --delete_unversioned_trees --nohooks, then --no-history exactly when
\* history was not requested, then --revision src@X exactly when a revision
\* X was given.
C5_SyncArgs ==
    (opts.func = "run_fetch" /\ Len(invoked) >= 3) =>
        LET base == << <<"gclient">>, <<"sync">>, <<"--delete_unversioned_trees">>,
                       <<"--nohooks">> >>
            a == invoked[3].args
        IN /\ opts.history /\ opts.revision = None => a = base
           /\ ~opts.history /\ opts.revision = None =>
                 a = base \o << <<"--no-history">> >>
           /\ opts.history /\ opts.revision # None =>
                 a = base \o << <<"--revision">>, <<"src@" \o opts.revision>> >>
           /\ ~opts.history /\ opts.revision # None =>
                 a = base \o << <<"--no-history">>, <<"--revision">>,
                                <<"src@" \o opts.revision>> >>

\* fetch --revision branch-heads/6045 has invoked its sync command.
C5_Witness ==
    /\ opts.func = "run_fetch"
    /\ ~opts.history
    /\ opts.revision = "branch-heads/6045"
    /\ Len(invoked) >= 3
    /\ <<"src@branch-heads/6045">> \in Range(invoked[3].args)

\* C6: build invocation.  run_build invokes one subprocess, the packaging
\* build script in opts.dir/src, whose arguments contain
\* --extra-gn-args=is_official_build=true exactly when official is set and
\* --use-unstripped-libs exactly when unstripped is set.
C6_BuildInvocation ==
    opts.func = "run_build" =>
        /\ Len(invoked) <= 1
        /\ pc \in {"subprocess", "exited"} => Len(invoked) = 1
        /\ \A i \in DOMAIN invoked :
              /\ invoked[i].args[1] = <<"./tools_webrtc/android/build_aar.py">>
              /\ invoked[i].cwd = opts.dir \o "/src"
              /\ Len(invoked[i].args) =
                    1 + (IF opts.official THEN 1 ELSE 0) + (IF opts.unstripped THEN 1 ELSE 0)
              /\ <<"--extra-gn-args=is_official_build=true">> \in Range(invoked[i].args)
                    <=> opts.official
              /\ <<"--use-unstripped-libs">> \in Range(invoked[i].args)
                    <=> opts.unstripped

\* A build with the default flags has run its one command.
C6_Witness ==
    /\ opts.func = "run_build"
    /\ opts.official
    /\ ~opts.unstripped
    /\ pc = "exited"
    /\ Len(invoked) = 1

\* The chunks of the bytes the wrapper wrote to the file, in file order.
WrapperText(d) ==
    LET w == SelectSeq(d, LAMBDA x : x.by = "wrapper")
    IN [i \in DOMAIN w |-> w[i].c]

RECURSIVE SplitLines(_)
\* The lines of a text in which every line ends with a newline.
SplitLines(t) ==
    IF t = <<>> THEN <<>>
    ELSE LET i == CHOOSE j \in 1..Len(t) + 1 :
                     /\ j = Len(t) + 1 \/ t[j] = NL
                     /\ \A k \in 1..j - 1 : t[k] # NL
         IN <<SubSeq(t, 1, i - 1)>> \o SplitLines(SubSeq(t, i + 1, Len(t)))

\* C3: log content.  At the end of a run the lines the wrapper wrote to the
\* log file after the announcement line are one line starting with Running
\* per command attempted, in invocation order, followed by the line
\* Command failed. exactly when a command failed.
C3_LogContent ==
    pc = "exited" =>
        LET lines == Tail(SplitLines(WrapperText(disk)))
            n == Len(invoked)
        IN /\ Len(lines) = n + (IF SomeFailed THEN 1 ELSE 0)
           /\ \A i \in 1..n :
                 /\ i \in DOMAIN lines
                 /\ lines[i] = RunningMessage(invoked[i].args, invoked[i].cwd)
           /\ SomeFailed => lines[Len(lines)] = FailedMessage

\* C7 as stated: every step of the run, opening the log file included,
\* leaves the earlier contents of the file as a prefix of its contents.
C7_AppendOnlyFromBefore == [][IsPrefix(disk, disk')]_vars

\* C7: once the logger has opened the log file, every step leaves the
\* earlier contents of the file as a prefix of its contents: bytes are only
\* added at the end.
C7_AppendOnlyAfterOpen == [][pc # "main" => IsPrefix(disk, disk')]_vars

\* A run on a named log file has ended with wrapper lines and subprocess
\* output in the file.
C7_Witness ==
    /\ opts.logfile # None
    /\ pc = "exited"
    /\ Len(invoked) >= 2
    /\ \E p \in DOMAIN disk : disk[p].by = "subprocess"
    /\ \E p \in DOMAIN disk : disk[p].by = "wrapper" /\ disk[p].c = "Command failed."

\* The default run_fetch gives to variable k.
DefaultOf(k) == (CHOOSE i \in DOMAIN EnvDefaults : EnvDefaults[i][1] = k)

\* Environment e with each defaulted variable it lacks set to its default.
WithDefaults(e) ==
    [k \in DOMAIN e \cup DefaultVars |->
        IF k \in DOMAIN e THEN e[k] ELSE EnvDefaults[DefaultOf(k)][2]]

\* C8: environment defaults are set only if absent.  Once fetch is past its
\* step 5, each of the eight variables has the caller's value if the caller
\* set it and the fixed default otherwise; every other variable is as the
\* caller left it, at every point of every run.
C8_EnvSetIfAbsent ==
    /\ (opts.func = "run_fetch" /\ Len(invoked) >= 5) =>
          \A i \in DOMAIN EnvDefaults :
              LET k == EnvDefaults[i][1]
              IN /\ k \in DOMAIN environ
                 /\ environ[k] = IF k \in DOMAIN callerEnv THEN callerEnv[k]
                                 ELSE EnvDefaults[i][2]
    /\ DOMAIN environ \ DefaultVars = DOMAIN callerEnv \ DefaultVars
    /\ \A k \in DOMAIN callerEnv \ DefaultVars : environ[k] = callerEnv[k]

\* fetch is past step 5 with a caller that had set TZ and LANGUAGE (to the
\* empty string) but not LANG.
C8_Witness ==
    /\ opts.func = "run_fetch"
    /\ Len(invoked) >= 5
    /\ "TZ" \in DOMAIN callerEnv
    /\ "LANGUAGE" \in DOMAIN callerEnv
    /\ "LANG" \notin DOMAIN callerEnv
    /\ environ["LANG"] = "C.UTF-8"
    /\ environ["TZ"] = "caller"

\* C9: visibility of the environment defaults.  Commands 1 to 4 of fetch and
\* the command of build receive the caller's environment; the commands of
\* fetch after step 5 receive it with the defaults added; the defaults stay
\* in the process environment to the end of the run, and a run in which a
\* command before step 5 failed never has them.
C9_EnvVisibility ==
    /\ \A i \in DOMAIN invoked :
          invoked[i].env = IF opts.func = "run_fetch" /\ i >= 5
                           THEN WithDefaults(callerEnv)
                           ELSE callerEnv
    /\ (opts.func = "run_fetch" /\ Len(invoked) >= 5) =>
          environ = WithDefaults(callerEnv)
    /\ (opts.func = "run_build" \/ Len(results) < 4 \/ ~results[4]) =>
          environ = callerEnv

\* fetch has invoked runhooks for a caller whose environment lacked some of
\* the defaults.
C9_Witness ==
    /\ opts.func = "run_fetch"
    /\ Len(invoked) = 6
    /\ callerEnv # WithDefaults(callerEnv)
    /\ invoked[4].env = callerEnv
    /\ invoked[6].env # callerEnv

\* Number of bytes before position p of d that the wrapper wrote and that
\* carry chunk c.
WrapperCount(d, p, c) ==
    Cardinality({q \in 1..p - 1 : d[q].by = "wrapper" /\ d[q].c = c})

\* C10: flush before launch.  While a subprocess runs, and at the moment it
\* was launched, the logger's buffer is empty.  Every byte the n-th
\* subprocess wrote lies in the file after the complete descriptive line of
\* command n, before the descriptive line of any later command and before
\* any failure marker, and the announcement line is the first line of the
\* file.
C10_FlushBeforeLaunch ==
    /\ pc = "subprocess" => buf = <<>>
    /\ \A i \in DOMAIN invoked : invoked[i].unflushed = <<>>
    /\ \A p \in DOMAIN disk :
          disk[p].by = "subprocess" =>
              /\ WrapperCount(disk, p, "Running '") = disk[p].n
              /\ WrapperCount(disk, p, "Command failed.") = 0
              /\ WrapperCount(disk, p, "Writing to log file '") = 1
              /\ WrapperCount(disk, p, "' in '") = disk[p].n
              /\ disk[1].by = "wrapper"

\* The second command of a run has failed after writing output, the first
\* having written output too.
C10_Witness ==
    /\ pc = "exited"
    /\ Len(invoked) = 2
    /\ \E p \in DOMAIN disk : disk[p].by = "subprocess" /\ disk[p].n = 1
    /\ \E p \in DOMAIN disk : disk[p].by = "subprocess" /\ disk[p].n = 2
    /\ disk[Len(disk) - 1].c = "Command failed."

====
